---- MODULE Spec2Model ----
(***************************************************************************)
(* Model of shipwright/_lib/image.py: discovery of Dockerfiles under a     *)
(* root (build_files), naming (name, image_name), TAGS files               *)
(* (add_extra_tags), build-context paths (parse_copy, copy_paths), parent  *)
(* image (parent) and the catalogue loop (list_images).                    *)
(*                                                                         *)
(* A Python str is a sequence of one-character strings.  The library       *)
(* functions the code calls (str methods, os.path, re, json, os.walk) are  *)
(* modelled by what they compute on such sequences.                        *)
(***************************************************************************)
EXTENDS Integers, Sequences, FiniteSets, TLC

\* ------------------------------------------------------------------------
\* Characters
\* ------------------------------------------------------------------------
TAB == "\t"
NL == "\n"
DQ == "\""
SP == " "
BSL == "\\"
SLASH == "/"

\* str.isspace for the characters that occur in the modelled inputs
IsSpace(c) == c \in {SP, TAB, NL}

UpperChars == <<"A", "B", "C", "D", "E", "F", "G", "H", "I", "J", "K", "L", "M",
                "N", "O", "P", "Q", "R", "S", "T", "U", "V", "W", "X", "Y", "Z">>
LowerChars == <<"a", "b", "c", "d", "e", "f", "g", "h", "i", "j", "k", "l", "m",
                "n", "o", "p", "q", "r", "s", "t", "u", "v", "w", "x", "y", "z">>

LowerChar(c) ==
    IF \E i \in 1..26 : UpperChars[i] = c
    THEN LowerChars[CHOOSE i \in 1..26 : UpperChars[i] = c]
    ELSE c

\* str.lower
Lower(s) == [i \in 1..Len(s) |-> LowerChar(s[i])]

IsDigit(c) == c \in {"0", "1", "2", "3", "4", "5", "6", "7", "8", "9"}

\* ------------------------------------------------------------------------
\* str methods
\* ------------------------------------------------------------------------
\* s[n:]
From(s, n) == SubSeq(s, n + 1, Len(s))

\* s[:n]
Upto(s, n) == SubSeq(s, 1, n)

\* s.startswith(p)
StartsWith(s, p) == Len(s) >= Len(p) /\ SubSeq(s, 1, Len(p)) = p

\* s.find(p), 0-based, -1 when p does not occur
Find(s, p) ==
    LET hits == {i \in 0..(Len(s) - Len(p)) : SubSeq(s, i + 1, i + Len(p)) = p}
    IN IF hits = {} THEN -1 ELSE CHOOSE i \in hits : \A j \in hits : i <= j

\* s.rfind(p), 0-based, -1 when p does not occur
RFind(s, p) ==
    LET hits == {i \in 0..(Len(s) - Len(p)) : SubSeq(s, i + 1, i + Len(p)) = p}
    IN IF hits = {} THEN -1 ELSE CHOOSE i \in hits : \A j \in hits : i >= j

\* s.partition(p): (before, p, after) at the first occurrence, else (s, '', '')
Partition(s, p) ==
    LET i == Find(s, p)
    IN IF i = -1 THEN <<s, <<>>, <<>>>>
       ELSE <<Upto(s, i), p, From(s, i + Len(p))>>

\* number of leading whitespace characters
LeadingSpaces(s) ==
    LET stops == {i \in 1..Len(s) : ~IsSpace(s[i])}
    IN IF stops = {} THEN Len(s)
       ELSE (CHOOSE i \in stops : \A j \in stops : i <= j) - 1

\* s.lstrip()
LStrip(s) == From(s, LeadingSpaces(s))

\* s.strip()
Strip(s) ==
    LET t == LStrip(s)
        keeps == {i \in 1..Len(t) : ~IsSpace(t[i])}
    IN IF keeps = {} THEN <<>>
       ELSE Upto(t, CHOOSE i \in keeps : \A j \in keeps : i >= j)

\* s.rstrip('/')
RStripSlash(s) ==
    LET keeps == {i \in 1..Len(s) : s[i] # SLASH}
    IN IF keeps = {} THEN <<>>
       ELSE Upto(s, CHOOSE i \in keeps : \A j \in keeps : i >= j)

\* s.split(sep) for a one-character sep: every occurrence separates, so
\* adjacent separators give empty strings
RECURSIVE SplitOn(_, _)
SplitOn(s, sep) ==
    LET i == Find(s, <<sep>>)
    IN IF i = -1 THEN <<s>>
       ELSE <<Upto(s, i)>> \o SplitOn(From(s, i + 1), sep)

\* s.split(): runs of whitespace separate, no empty strings
RECURSIVE SplitWs(_)
SplitWs(s) ==
    LET t == LStrip(s)
        ends == {i \in 1..Len(t) : IsSpace(t[i])}
        e == IF ends = {} THEN Len(t) + 1
             ELSE CHOOSE i \in ends : \A j \in ends : i <= j
    IN IF t = <<>> THEN <<>>
       ELSE <<Upto(t, e - 1)>> \o SplitWs(From(t, e - 1))

\* sep.join(parts)
RECURSIVE JoinWith(_, _)
JoinWith(parts, sep) ==
    IF parts = <<>> THEN <<>>
    ELSE IF Len(parts) = 1 THEN parts[1]
    ELSE parts[1] \o sep \o JoinWith(Tail(parts), sep)

\* ------------------------------------------------------------------------
\* os.path (posixpath)
\* ------------------------------------------------------------------------
\* os.path.basename
Basename(p) == From(p, RFind(p, <<SLASH>>) + 1)

\* os.path.dirname
Dirname(p) ==
    LET head == Upto(p, RFind(p, <<SLASH>>) + 1)
    IN IF head # <<>> /\ (\E i \in 1..Len(head) : head[i] # SLASH)
       THEN RStripSlash(head)
       ELSE head

\* os.path.join(a, b)
Join(a, b) ==
    IF StartsWith(b, <<SLASH>>) THEN b
    ELSE IF a = <<>> \/ a[Len(a)] = SLASH THEN a \o b
    ELSE a \o <<SLASH>> \o b

DOT == <<".">>
DOTDOT == <<".", ".">>

\* the component loop of os.path.normpath
RECURSIVE NormComps(_, _, _)
NormComps(comps, new_comps, initial_slashes) ==
    IF comps = <<>> THEN new_comps
    ELSE LET comp == Head(comps)
             n == Len(new_comps)
         IN IF comp = <<>> \/ comp = DOT
            THEN NormComps(Tail(comps), new_comps, initial_slashes)
            ELSE IF comp # DOTDOT
                    \/ (initial_slashes = 0 /\ n = 0)
                    \/ (n > 0 /\ new_comps[n] = DOTDOT)
            THEN NormComps(Tail(comps), Append(new_comps, comp), initial_slashes)
            ELSE IF n > 0
            THEN NormComps(Tail(comps), Upto(new_comps, n - 1), initial_slashes)
            ELSE NormComps(Tail(comps), new_comps, initial_slashes)

\* os.path.normpath
Normpath(p) ==
    LET initial_slashes ==
            IF ~StartsWith(p, <<SLASH>>) THEN 0
            ELSE IF StartsWith(p, <<SLASH, SLASH>>)
                    /\ ~StartsWith(p, <<SLASH, SLASH, SLASH>>) THEN 2
            ELSE 1
        joined == JoinWith(NormComps(SplitOn(p, SLASH), <<>>, initial_slashes),
                           <<SLASH>>)
        res == [i \in 1..initial_slashes |-> SLASH] \o joined
    IN IF p = <<>> THEN DOT
       ELSE IF res = <<>> THEN DOT
       ELSE res

\* ------------------------------------------------------------------------
\* name, image_name
\* ------------------------------------------------------------------------
Dockerfile == <<"D", "o", "c", "k", "e", "r", "f", "i", "l", "e">>

\* outcome of a call: a value, or the exception it raised
Ok(v) == [exc |-> "", val |-> v]
Raise(e) == [exc |-> e, val |-> <<>>]

name_mut(docker_path) ==
    LET parts == Partition(Basename(docker_path), Dockerfile)
    IN IF parts[2] # Dockerfile
       THEN Raise("ValueError")
       ELSE Ok(Basename(Dirname(docker_path)) \o parts[3])

name(docker_path) ==
    LET filename == Basename(docker_path)
        parts == Partition(filename, Dockerfile)
        before == parts[1]
        dockerfile == parts[2]
        after == parts[3]
    IN IF dockerfile # Dockerfile \/ before # <<>>
       THEN Raise("ValueError")
       ELSE Ok(Basename(Dirname(docker_path)) \o after)

\* dict.get: a sequence holding the value, empty for None
Get(map, key) == IF key \in DOMAIN map THEN <<map[key]>> ELSE <<>>

\* image_name returns the pair <<name, short_name>>
image_name(namespace, name_map, root_path, path) ==
    LET relative_path == Dirname(From(path, Len(root_path)))
        docker_repo == IF StartsWith(path, root_path)
                       THEN Get(name_map, relative_path)
                       ELSE <<>>
        short_name == name(path)
    IN IF docker_repo # <<>>
       THEN Ok(<<docker_repo[1], docker_repo[1]>>)
       ELSE IF short_name.exc # ""
       THEN short_name
       ELSE Ok(<<namespace \o <<SLASH>> \o short_name.val, short_name.val>>)

\* ------------------------------------------------------------------------
\* json.loads, as far as parse_copy observes it: whether the text is a JSON
\* array and, if so, which of its elements are strings and what they hold.
\* Covered grammar: whitespace, arrays (nested), strings with the escapes
\* \" \\ \/, integers, and the literals null, true, false, NaN, Infinity.
\* Objects and fractional numbers are rejected; no modelled input has them.
\* ------------------------------------------------------------------------
\* json.decoder.WHITESPACE: index of the first non-whitespace character at or
\* after position i (1-based), Len(s) + 1 when there is none
SkipWs(s, i) ==
    LET stops == {j \in i..Len(s) : ~IsSpace(s[j])}
    IN IF stops = {} THEN Len(s) + 1
       ELSE CHOOSE j \in stops : \A k \in stops : j <= k

JsonFail == [ok |-> FALSE, next |-> 0, isstr |-> FALSE, islist |-> FALSE,
             str |-> <<>>, items |-> <<>>]

JsonLiterals == {<<"n", "u", "l", "l">>, <<"t", "r", "u", "e">>,
                 <<"f", "a", "l", "s", "e">>, <<"N", "a", "N">>,
                 <<"I", "n", "f", "i", "n", "i", "t", "y">>,
                 <<"-", "I", "n", "f", "i", "n", "i", "t", "y">>}

\* end (exclusive) of the integer starting at position i, 0 when none starts
ScanInt(s, i) ==
    LET d == IF i <= Len(s) /\ s[i] = "-" THEN i + 1 ELSE i
        stops == {j \in d..Len(s) : ~IsDigit(s[j])}
        e == IF stops = {} THEN Len(s) + 1
             ELSE CHOOSE j \in stops : \A k \in stops : j <= k
    IN IF d > Len(s) \/ ~IsDigit(s[d]) THEN 0
       ELSE IF s[d] = "0" THEN d + 1
       ELSE e

\* json.decoder.scanstring (strict): position i is just after the opening
\* quote; of the escapes only \" \\ and \/ are covered
RECURSIVE ScanString(_, _, _)
ScanString(s, i, acc) ==
    IF i > Len(s) THEN JsonFail
    ELSE IF s[i] = DQ
    THEN [ok |-> TRUE, next |-> i + 1, isstr |-> TRUE, islist |-> FALSE,
          str |-> acc, items |-> <<>>]
    ELSE IF s[i] = BSL
    THEN IF i + 1 <= Len(s) /\ s[i + 1] \in {DQ, BSL, SLASH}
         THEN ScanString(s, i + 2, Append(acc, s[i + 1]))
         ELSE JsonFail
    ELSE IF s[i] \in {TAB, NL} THEN JsonFail
    ELSE ScanString(s, i + 1, Append(acc, s[i]))

\* json.scanner: scan one value starting at position i
RECURSIVE ScanValue(_, _)
RECURSIVE ScanArray(_, _, _, _)
ScanValue(s, i) ==
    IF i > Len(s) THEN JsonFail
    ELSE IF s[i] = DQ THEN ScanString(s, i + 1, <<>>)
    ELSE IF s[i] = "[" THEN ScanArray(s, i + 1, <<>>, TRUE)
    ELSE IF \E w \in JsonLiterals : StartsWith(From(s, i - 1), w) THEN
        LET w == CHOOSE w \in JsonLiterals : StartsWith(From(s, i - 1), w)
        IN [ok |-> TRUE, next |-> i + Len(w), isstr |-> FALSE,
            islist |-> FALSE, str |-> <<>>, items |-> <<>>]
    ELSE IF ScanInt(s, i) # 0 THEN
        [ok |-> TRUE, next |-> ScanInt(s, i), isstr |-> FALSE,
         islist |-> FALSE, str |-> <<>>, items |-> <<>>]
    ELSE JsonFail

\* json.decoder.JSONArray: position i is just after the opening bracket
ScanArray(s, i, items, first) ==
    LET j == SkipWs(s, i)
        v == ScanValue(s, j)
        k == SkipWs(s, v.next)
        item == [isstr |-> v.isstr, str |-> v.str]
    IN IF first /\ j <= Len(s) /\ s[j] = "]"
       THEN [ok |-> TRUE, next |-> j + 1, isstr |-> FALSE, islist |-> TRUE,
             str |-> <<>>, items |-> <<>>]
       ELSE IF ~v.ok \/ k > Len(s) THEN JsonFail
       ELSE IF s[k] = "," THEN ScanArray(s, k + 1, Append(items, item), FALSE)
       ELSE IF s[k] = "]"
       THEN [ok |-> TRUE, next |-> k + 1, isstr |-> FALSE, islist |-> TRUE,
             str |-> <<>>, items |-> Append(items, item)]
       ELSE JsonFail

\* json.loads: JsonFail stands for JSONDecodeError
json_loads(s) ==
    LET v == ScanValue(s, SkipWs(s, 1))
    IN IF v.ok /\ SkipWs(s, v.next) = Len(s) + 1 THEN v ELSE JsonFail

\* ------------------------------------------------------------------------
\* sub_if, parse_copy
\* ------------------------------------------------------------------------
COPY == <<"C", "O", "P", "Y">>
ADD == <<"A", "D", "D">>
FromFlag == <<"-", "-", "f", "r", "o", "m", "=">>
UrlSchemes == {<<"h", "t", "t", "p", ":">>, <<"h", "t", "t", "p", "s", ":">>,
               <<"f", "t", "p", ":">>}

\* sub_if(r'^\s*(WORD)\s', '', string, re.I): a sequence holding the string
\* with the match removed, empty (None) when the pattern does not match
sub_if(word, string) ==
    LET n == LeadingSpaces(string)
        e == n + Len(word)
    IN IF Len(string) > e
          /\ Lower(SubSeq(string, n + 1, e)) = Lower(word)
          /\ IsSpace(string[e + 1])
       THEN <<From(string, e + 1)>>
       ELSE <<>>

\* truth value of an optional string: None and '' are false
Truthy(opt) == opt # <<>> /\ opt[1] # <<>>

StrItem(s) == [isstr |-> TRUE, str |-> s]

copy_tokens_mut(copy_cmd) ==
    LET parts == SplitOn(copy_cmd, SP)
    IN [i \in 1..Len(parts) |-> StrItem(parts[i])]

\* the token list of parse_copy: the JSON array when the remainder is one,
\* else the remainder split on single spaces
copy_tokens(copy_cmd) ==
    LET result == json_loads(copy_cmd)
        parts == SplitOn(copy_cmd, SP)
    IN IF result.ok /\ result.islist
       THEN result.items
       ELSE [i \in 1..Len(parts) |-> StrItem(parts[i])]

\* re.match('(https?|ftp):', p, re.I)
IsUrl(p) == \E u \in UrlSchemes : StartsWith(Lower(p), u)

\* p.lower().startswith('--from=')
IsFromFlag(p) == StartsWith(Lower(p), FromFlag)

Strs(items) == [i \in 1..Len(items) |-> items[i].str]

\* parse_copy(cmd): the list of source paths, or the exception raised when a
\* JSON array holds an element that is not a string
parse_copy(cmd) ==
    LET copy == sub_if(COPY, cmd)
        add == sub_if(ADD, cmd)
        copy_cmd == IF Truthy(copy) THEN copy ELSE add
        result == copy_tokens(copy_cmd[1])
        paths == Upto(result, Len(result) - 1)
        bad == {i \in 1..Len(paths) : ~paths[i].isstr}
        hits == {i \in 1..Len(paths) : paths[i].isstr /\ IsFromFlag(paths[i].str)}
    IN IF ~Truthy(copy_cmd) THEN Ok(<<>>)
       ELSE IF Truthy(copy) /\ \E h \in hits : \A b \in bad : h < b
       THEN Ok(<<>>)
       ELSE IF Truthy(copy) /\ bad # {} THEN Raise("AttributeError")
       ELSE IF ~Truthy(add) THEN Ok(Strs(paths))
       ELSE IF bad # {} THEN Raise("TypeError")
       ELSE Ok(Strs(SelectSeq(paths, LAMBDA p : ~IsUrl(p.str))))

\* ------------------------------------------------------------------------
\* State
\* ------------------------------------------------------------------------
VARIABLES
    pc,          \* position in list_images and the functions it calls
    err,         \* the exception that aborted the run: [op, exc]
    namespace,   \* arguments of list_images
    name_map,
    root_path,
    fs,          \* the file system under root_path
    gen,         \* how the definition file's COPY/ADD line was written
    stack,       \* os.walk: directories still to visit
    cur,         \* os.walk: the directory being listed, [id, path]
    files,       \* build_files: file names of cur not yet iterated
    yielded,     \* paths build_files has yielded so far
    path,        \* list_images: loop variable
    img_name,    \* list_images: name
    short_name,  \* list_images: short_name
    extra_tags,  \* list_images: extra_tags
    cpaths,      \* copy_paths: the paths generated so far
    par,         \* result of parent(path): <<>> is None
    f,           \* lines not yet read from the open file
    l,           \* line read last by copy_paths
    ps,          \* what parse_copy returned or raised for l
    handles,     \* file objects created so far
    images       \* list_images: images

vars == <<pc, err, namespace, name_map, root_path, fs, gen, stack, cur, files,
          yielded, path, img_name, short_name, extra_tags, cpaths, par, f, l,
          ps, handles, images>>

inputs == <<namespace, name_map, root_path, fs, gen>>
walk == <<stack, cur, files, yielded>>

NoErr == [op |-> "", exc |-> ""]

\* ------------------------------------------------------------------------
\* Inputs
\* ------------------------------------------------------------------------
MaxTokens == 3
MaxLines == 2

DirA == <<"a">>
DirB == <<"b">>
DirC == <<"c">>
TAGS == <<"T", "A", "G", "S">>
DockerfileDev == Dockerfile \o <<"-", "d", "e", "v">>
LowerDockerfile == <<"d", "o", "c", "k", "e", "r", "f", "i", "l", "e">>
SetupPy == <<"s", "e", "t", "u", "p", ".", "p", "y">>
Dockerignore == <<".", "d", "o", "c", "k", "e", "r", "i", "g", "n", "o", "r", "e">>

\* a directory is identified by the names leading to it from the root
TreeDirs == {<<>>, <<DirA>>, <<DirB>>, <<DirA, DirC>>}

FileSets == {{}, {Dockerfile, TAGS},
             {Dockerfile, DockerfileDev, LowerDockerfile}}

RootPaths == {<<"x">>, <<"x", "/">>}

Namespace == <<"n", "s">>
Mapped == <<"f", "o", "o", "/", "m">>

NameMaps == {<<>>,
             (DirA :> Mapped),
             (<<SLASH>> \o DirA :> Mapped),
             (DirA \o <<SLASH>> \o DirC :> Mapped)}

TagsLines == <<<<"a", NL>>, <<NL>>, <<" ", "b", NL>>>>

FromU == <<"F", "R", "O", "M", " ", "u", NL>>
CopyA == <<"C", "O", "P", "Y", " ", "a", " ", "/", "d", NL>>

TreeContents == {<<FromU, CopyA>>}

FromLines == {FromU,
              <<"F", "r", "O", "m", " ", " ", "v", " ", "A", "S", " ", "b", NL>>,
              <<" ", "f", "r", "o", "m", TAB, "s", NL>>,
              <<"F", "R", "O", "M", NL>>,
              <<"R", "U", "N", " ", "f", "r", "o", "m", NL>>,
              <<"A", "D", "D", " ", ".", ".", "/", "c", " ", ".", ".", NL>>,
              <<"C", "O", "P", "Y", " ", "[", "1", ",", "2", "]", NL>>}

Tokens == {<<>>,
           <<"a">>,
           <<"-", "-", "F", "r", "o", "m", "=", "b">>,
           <<"f", "t", "p", ":", "x">>,
           <<"[", DQ, "a", DQ, ",">>,
           <<DQ, "b", DQ, "]">>}

Seps == {SP, TAB}

SeqsUpTo(S, n) == UNION {[1..k -> S] : k \in 0..n}

TokenLists == SeqsUpTo(Tokens, MaxTokens) \ {<<>>}

\* the separator written before token i: sepA before the odd tokens (so
\* after the instruction), sepB before the even ones
RECURSIVE ShellText(_, _, _, _)
ShellText(toks, i, sepA, sepB) ==
    IF i > Len(toks) THEN <<>>
    ELSE <<IF i % 2 = 1 THEN sepA ELSE sepB>> \o toks[i]
         \o ShellText(toks, i + 1, sepA, sepB)

\* shell form: INSTR s1 ... sn dest
ShellLine(g) == g.instr \o ShellText(g.toks, 1, g.sepA, g.sepB) \o <<NL>>

\* a string written as a JSON string
RECURSIVE JsonEscape(_)
JsonEscape(s) ==
    IF s = <<>> THEN <<>>
    ELSE (IF Head(s) \in {DQ, BSL} THEN <<BSL, Head(s)>> ELSE <<Head(s)>>)
         \o JsonEscape(Tail(s))

JsonString(s) == <<DQ>> \o JsonEscape(s) \o <<DQ>>

\* exec form: INSTR ["s1",...,"sn","dest"]
ExecLine(g) ==
    g.instr \o <<SP, "[">>
    \o JoinWith([i \in 1..Len(g.toks) |-> JsonString(g.toks[i])], <<",">>)
    \o <<"]", NL>>

GenLine(g) == IF g.form = "exec" THEN ExecLine(g) ELSE ShellLine(g)

NoGen == [form |-> "none", instr |-> <<>>, toks |-> <<>>, sepA |-> SP, sepB |-> SP]

\* ------------------------------------------------------------------------
\* Initial states: the arguments of list_images and the tree they point at
\* ------------------------------------------------------------------------
Fresh ==
    /\ err = NoErr
    /\ stack = <<[id |-> <<>>, path |-> root_path]>>
    /\ cur = [id |-> <<>>, path |-> <<>>]
    /\ files = {}
    /\ yielded = <<>>
    /\ img_name = <<>>
    /\ short_name = <<>>
    /\ extra_tags = <<>>
    /\ cpaths = {}
    /\ par = <<>>
    /\ f = <<>>
    /\ l = <<>>
    /\ ps = Ok(<<>>)
    /\ handles = {}
    /\ images = <<>>

\* list_images has been called and is about to iterate build_files
Start == pc = "build_files" /\ path = <<>> /\ Fresh

\* a tree of directories, at most one of them unreadable, or with files
\* that cannot be opened
InitTree ==
    /\ namespace = Namespace
    /\ name_map \in NameMaps
    /\ root_path \in RootPaths
    /\ gen = NoGen
    /\ \E fr \in {{}, {Dockerfile, TAGS}}, fa \in FileSets, fc \in FileSets,
          bad \in SUBSET TreeDirs, fok \in BOOLEAN, c \in TreeContents :
          /\ Cardinality(bad) <= 1
          /\ fok \/ bad = {}
          /\ fs = [files |-> (<<>> :> fr) @@ (<<DirA>> :> fa)
                             @@ (<<DirA, DirC>> :> fc)
                             @@ (<<DirB>> :> {Dockerfile, SetupPy}),
                   readable |-> [d \in TreeDirs |-> d \notin bad],
                   file_ok |-> fok,
                   content |-> c]
    /\ Start

OneFile(c) == [files |-> (<<>> :> {Dockerfile}),
               readable |-> (<<>> :> TRUE),
               file_ok |-> TRUE,
               content |-> c]

\* one definition file of up to MaxLines lines
InitLines ==
    /\ namespace = Namespace
    /\ name_map = <<>>
    /\ root_path = <<"x", "/">>
    /\ gen = NoGen
    /\ \E c \in SeqsUpTo(FromLines, MaxLines) : fs = OneFile(c)
    /\ Start

Gens ==
    [form : {"shell"}, instr : {COPY, ADD}, toks : TokenLists,
     sepA : Seps, sepB : Seps]
    \cup [form : {"exec"}, instr : {COPY, ADD}, toks : TokenLists,
          sepA : {SP}, sepB : {SP}]

\* one definition file holding one COPY or ADD line
InitCopy ==
    /\ namespace = Namespace
    /\ name_map = <<>>
    /\ root_path = <<"x", "/">>
    /\ gen \in Gens
    /\ fs = OneFile(<<GenLine(gen)>>)
    /\ Start

Init == InitTree \/ InitLines \/ InitCopy

\* ------------------------------------------------------------------------
\* build_files
\* ------------------------------------------------------------------------
Children(d) ==
    {e \in DOMAIN fs.files : Len(e) = Len(d) + 1 /\ Upto(e, Len(d)) = d}

Orderings(S) ==
    {o \in [1..Cardinality(S) -> S] : \A i, j \in DOMAIN o : o[i] = o[j] => i = j}

is_build_file_mut(filename) == filename = Dockerfile

\* filename.startswith('Dockerfile')
is_build_file(filename) == StartsWith(filename, Dockerfile)

\* os.walk(build_root), top down with onerror=None: list the next directory;
\* a directory that cannot be listed is skipped without an error.  scandir
\* returns the entries in any order.
build_files_walk ==
    /\ pc = "build_files"
    /\ files = {}
    /\ stack # <<>>
    /\ LET top == Head(stack)
       IN IF ~fs.readable[top.id]
          THEN /\ stack' = Tail(stack)
               /\ UNCHANGED <<cur, files>>
          ELSE /\ \E dirs \in Orderings(Children(top.id)) :
                     stack' = [i \in DOMAIN dirs |->
                                  [id |-> dirs[i],
                                   path |-> Join(top.path, dirs[i][Len(dirs[i])])]]
                              \o Tail(stack)
               /\ cur' = top
               /\ files' = fs.files[top.id]
    /\ UNCHANGED <<pc, err, inputs, yielded, path, img_name, short_name,
                   extra_tags, cpaths, par, f, l, ps, handles, images>>

\* for filename in files: if filename.startswith('Dockerfile'): yield ...
build_files_next ==
    /\ pc = "build_files"
    /\ \E filename \in files :
          /\ files' = files \ {filename}
          /\ IF is_build_file(filename)
             THEN /\ path' = Join(cur.path, filename)
                  /\ yielded' = Append(yielded, path')
                  /\ pc' = "image_name"
             ELSE UNCHANGED <<path, yielded, pc>>
    /\ UNCHANGED <<err, inputs, stack, cur, img_name, short_name, extra_tags,
                   cpaths, par, f, l, ps, handles, images>>

\* build_files is exhausted: list_images returns images
list_images_return ==
    /\ pc = "build_files"
    /\ files = {}
    /\ stack = <<>>
    /\ pc' = "done"
    /\ UNCHANGED <<err, inputs, walk, path, img_name, short_name, extra_tags,
                   cpaths, par, f, l, ps, handles, images>>

\* ------------------------------------------------------------------------
\* list_images: name, short_name = image_name(...)
\* ------------------------------------------------------------------------
list_images_name ==
    /\ pc = "image_name"
    /\ LET r == image_name(namespace, name_map, root_path, path)
       IN IF r.exc # ""
          THEN /\ pc' = "error"
               /\ err' = [op |-> "image_name", exc |-> r.exc]
               /\ UNCHANGED <<img_name, short_name>>
          ELSE /\ pc' = "add_extra_tags"
               /\ img_name' = r.val[1]
               /\ short_name' = r.val[2]
               /\ UNCHANGED err
    /\ UNCHANGED <<inputs, walk, path, extra_tags, cpaths, par, f, l, ps,
                   handles, images>>

\* ------------------------------------------------------------------------
\* File objects.  A with block closes its file when it is left, by return
\* or by exception.  A file object that is only dropped stays open until the
\* interpreter finalises it: at once where objects are reference counted,
\* at some later collection, or not before exit, elsewhere.
\* ------------------------------------------------------------------------
Opened(op, p) == [op |-> op, path |-> p, state |-> "open", ref |-> TRUE]

\* leaving "with open(...) as f"
WithExit(op) ==
    {IF h.op = op /\ h.ref THEN [h EXCEPT !.state = "closed", !.ref = FALSE] ELSE h
       : h \in handles}

\* the last reference to the file object goes away, nothing closes it
Drop(op) ==
    {IF h.op = op /\ h.ref THEN [h EXCEPT !.ref = FALSE] ELSE h : h \in handles}

\* a collection finalises every file object that is no longer referenced
finalize ==
    /\ \E h \in handles : h.state = "open" /\ ~h.ref
    /\ handles' = {IF h.state = "open" /\ ~h.ref
                   THEN [h EXCEPT !.state = "finalized"] ELSE h : h \in handles}
    /\ UNCHANGED <<pc, err, inputs, walk, path, img_name, short_name,
                   extra_tags, cpaths, par, f, l, ps, images>>

\* ------------------------------------------------------------------------
\* add_extra_tags
\* ------------------------------------------------------------------------
\* os.path.isfile(os.path.join(dir_path, 'TAGS')): path was yielded for cur
HasTags == TAGS \in fs.files[cur.id]

add_extra_tags_open ==
    /\ pc = "add_extra_tags"
    /\ extra_tags' = <<>>
    /\ IF ~HasTags
       THEN /\ pc' = "copy_paths"
            /\ UNCHANGED <<err, f, handles>>
       ELSE IF ~fs.file_ok
       THEN /\ pc' = "error"
            /\ err' = [op |-> "add_extra_tags", exc |-> "IOError"]
            /\ UNCHANGED <<f, handles>>
       ELSE /\ pc' = "tags_read"
            /\ f' = TagsLines
            /\ handles' = handles \cup {Opened("add_extra_tags", Join(Dirname(path), TAGS))}
            /\ UNCHANGED err
    /\ UNCHANGED <<inputs, walk, path, img_name, short_name, cpaths, par, l,
                   ps, images>>

\* for line in tag_f: extra_tags.append(line.strip()); then the with block ends
add_extra_tags_read ==
    /\ pc = "tags_read"
    /\ IF f # <<>>
       THEN /\ extra_tags' = Append(extra_tags, Strip(Head(f)))
            /\ f' = Tail(f)
            /\ UNCHANGED <<pc, handles>>
       ELSE /\ handles' = WithExit("add_extra_tags")
            /\ pc' = "copy_paths"
            /\ UNCHANGED <<extra_tags, f>>
    /\ UNCHANGED <<err, inputs, walk, path, img_name, short_name, cpaths, par,
                   l, ps, images>>

\* ------------------------------------------------------------------------
\* copy_paths
\* ------------------------------------------------------------------------
copy_paths_head_mut(docker_path) == {docker_path}

\* yield docker_path; yield join('.dockerignore')
copy_paths_head(docker_path) ==
    {docker_path, Join(Dirname(docker_path), Dockerignore)}

\* os.path.normpath(join(p)) for the paths of one line
copy_paths_line(docker_path, paths) ==
    {Normpath(Join(Dirname(docker_path), paths[i])) : i \in DOMAIN paths}

copy_paths_open ==
    /\ pc = "copy_paths"
    /\ cpaths' = copy_paths_head(path)
    /\ IF ~fs.file_ok
       THEN /\ pc' = "error"
            /\ err' = [op |-> "copy_paths", exc |-> "IOError"]
            /\ UNCHANGED <<f, handles>>
       ELSE /\ pc' = "copy_paths_read"
            /\ f' = fs.content
            /\ handles' = handles \cup {Opened("copy_paths", path)}
            /\ UNCHANGED err
    /\ UNCHANGED <<inputs, walk, path, img_name, short_name, extra_tags, par,
                   l, ps, images>>

\* for l in f: for p in parse_copy(l): yield ...; an exception of parse_copy
\* leaves the with block and the generator, and aborts frozenset(...)
copy_paths_read ==
    /\ pc = "copy_paths_read"
    /\ IF f # <<>>
       THEN /\ l' = Head(f)
            /\ ps' = parse_copy(Head(f))
            /\ f' = Tail(f)
            /\ IF ps'.exc # ""
               THEN /\ pc' = "error"
                    /\ err' = [op |-> "copy_paths", exc |-> ps'.exc]
                    /\ handles' = WithExit("copy_paths")
                    /\ UNCHANGED cpaths
               ELSE /\ cpaths' = cpaths \cup copy_paths_line(path, ps'.val)
                    /\ UNCHANGED <<pc, err, handles>>
       ELSE /\ handles' = WithExit("copy_paths")
            /\ pc' = "parent"
            /\ UNCHANGED <<err, cpaths, f, l, ps>>
    /\ UNCHANGED <<inputs, walk, path, img_name, short_name, extra_tags, par,
                   images>>

\* ------------------------------------------------------------------------
\* parent
\* ------------------------------------------------------------------------
FROM == <<"f", "r", "o", "m">>

\* l.strip().lower().startswith('from')
is_from_line(line) == StartsWith(Lower(Strip(line)), FROM)

\* for l in open(docker_path)
parent_open ==
    /\ pc = "parent"
    /\ IF ~fs.file_ok
       THEN /\ pc' = "error"
            /\ err' = [op |-> "parent", exc |-> "IOError"]
            /\ UNCHANGED <<f, handles>>
       ELSE /\ pc' = "parent_read"
            /\ f' = fs.content
            /\ handles' = handles \cup {Opened("parent", path)}
            /\ UNCHANGED err
    /\ UNCHANGED <<inputs, walk, path, img_name, short_name, extra_tags,
                   cpaths, par, l, ps, images>>

\* one iteration of the loop, or its end: return l.split()[1] at the first
\* matching line, None when the file is exhausted.  The file object is never
\* closed by parent, it is dropped with the frame.
parent_read ==
    /\ pc = "parent_read"
    /\ IF f = <<>>
       THEN /\ par' = <<>>
            /\ pc' = "append"
            /\ handles' = Drop("parent")
            /\ UNCHANGED <<err, f>>
       ELSE IF ~is_from_line(Head(f))
       THEN /\ f' = Tail(f)
            /\ UNCHANGED <<pc, err, par, handles>>
       ELSE IF Len(SplitWs(Head(f))) < 2
       THEN /\ pc' = "error"
            /\ err' = [op |-> "parent", exc |-> "IndexError"]
            /\ handles' = Drop("parent")
            /\ UNCHANGED <<par, f>>
       ELSE /\ par' = <<SplitWs(Head(f))[2]>>
            /\ pc' = "append"
            /\ handles' = Drop("parent")
            /\ UNCHANGED <<err, f>>
    /\ UNCHANGED <<inputs, walk, path, img_name, short_name, extra_tags,
                   cpaths, l, ps, images>>

\* ------------------------------------------------------------------------
\* list_images: images.append(Image(...))
\* ------------------------------------------------------------------------
list_images_append ==
    /\ pc = "append"
    /\ images' = Append(images, [name |-> img_name,
                                 short_name |-> short_name,
                                 dir_path |-> Dirname(path),
                                 copy_paths |-> cpaths,
                                 path |-> path,
                                 parent |-> par,
                                 extra_tags |-> extra_tags])
    /\ pc' = "build_files"
    /\ UNCHANGED <<err, inputs, walk, path, img_name, short_name, extra_tags,
                   cpaths, par, f, l, ps, handles>>

Next ==
    \/ build_files_walk
    \/ build_files_next
    \/ list_images_return
    \/ list_images_name
    \/ add_extra_tags_open
    \/ add_extra_tags_read
    \/ copy_paths_open
    \/ copy_paths_read
    \/ parent_open
    \/ parent_read
    \/ list_images_append
    \/ finalize

Spec == Init /\ [][Next]_vars

\* ------------------------------------------------------------------------
\* name called on its own, on paths that need not come from build_files
\* ------------------------------------------------------------------------
NamePrefixes == {<<>>, <<SLASH>>, <<"f", SLASH>>, <<SLASH, "b", SLASH, "f", SLASH>>,
                 <<"x", SLASH, SLASH>>, <<".", SLASH>>}

NameBasenames == {Dockerfile, DockerfileDev, LowerDockerfile, SetupPy,
                  Dockerfile \o Dockerfile,
                  Dockerfile \o <<".">>,
                  <<"D", "o", "c", "k", "e", "r", "f", "i", "l">>,
                  <<"n", "-">> \o DockerfileDev,
                  <<"D">> \o Dockerfile,
                  <<>>}

NamePaths == {p \o b : p \in NamePrefixes, b \in NameBasenames}

InitName ==
    /\ pc = "name"
    /\ path \in NamePaths
    /\ namespace = Namespace
    /\ name_map = <<>>
    /\ root_path = <<>>
    /\ gen = NoGen
    /\ fs = OneFile(<<>>)
    /\ Fresh

\* short_name = name(path)
name_call ==
    /\ pc = "name"
    /\ LET r == name(path)
       IN IF r.exc # ""
          THEN /\ pc' = "error"
               /\ err' = [op |-> "name", exc |-> r.exc]
               /\ UNCHANGED short_name
          ELSE /\ pc' = "returned"
               /\ short_name' = r.val
               /\ UNCHANGED err
    /\ UNCHANGED <<inputs, walk, path, img_name, extra_tags, cpaths, par, f, l,
                   ps, handles, images>>

NextName == name_call

SpecName == InitName /\ [][NextName]_vars

\* ------------------------------------------------------------------------
\* Properties
\* ------------------------------------------------------------------------
Range(fn) == {fn[x] : x \in DOMAIN fn}

\* the directory of the definition file being processed, relative to the
\* root: the names from the root down to it
RelativeDir == JoinWith(cur.id, <<SLASH>>)

\* C1: once image_name has returned for a definition file under the root,
\* the name and the short name are both the name map's value for the file's
\* directory relative to the root when that directory is a key of the map,
\* and otherwise namespace + "/" + name(path) and name(path).
C1_MappedNameWins ==
    pc = "add_extra_tags" =>
        IF RelativeDir \in DOMAIN name_map
        THEN /\ img_name = name_map[RelativeDir]
             /\ short_name = name_map[RelativeDir]
        ELSE /\ name(path).exc = ""
             /\ img_name = namespace \o <<SLASH>> \o name(path).val
             /\ short_name = name(path).val

\* the line copy_paths has just handed to parse_copy was written in shell form
ShellParsed == gen.form = "shell" /\ pc = "copy_paths_read" /\ l = ShellLine(gen)

\* what follows the instruction token on the line
Remainder == From(l, Len(gen.instr))

IsJsonArray(s) == json_loads(s).ok /\ json_loads(s).islist

\* the whitespace-separated tokens before the last one
Candidates == Upto(SplitWs(Remainder), Len(SplitWs(Remainder)) - 1)

\* C2: for a COPY or ADD line in shell form (the remainder is not a JSON
\* array) parse_copy yields exactly the whitespace-separated tokens of the
\* remainder without the last one; lines whose candidates the --from= rule
\* or the URL rule would remove are left aside.
C2_ShellSplit ==
    (/\ ShellParsed
     /\ ~IsJsonArray(Remainder)
     /\ \A i \in DOMAIN Candidates :
           ~IsFromFlag(Candidates[i]) /\ ~IsUrl(Candidates[i]))
    => ps = Ok(Candidates)

\* lines of the definition file that parent takes for a FROM line
FromLineIndexes == {i \in DOMAIN fs.content : is_from_line(fs.content[i])}

FirstFromLine ==
    fs.content[CHOOSE i \in FromLineIndexes : \A j \in FromLineIndexes : i <= j]

\* C3: when parent is over for a readable definition file, it has returned
\* the second whitespace-separated token of the first line that starts with
\* "from" (stripped, lowercased), or None without an error when no line does.
C3_Parent ==
    (fs.file_ok /\ (pc = "append" \/ err.op = "parent")) =>
        /\ pc = "append"
        /\ IF FromLineIndexes = {}
           THEN par = <<>>
           ELSE /\ Len(SplitWs(FirstFromLine)) >= 2
                /\ par = <<SplitWs(FirstFromLine)[2]>>

\* the normalised, directory-relative resolutions of what parse_copy yields
\* for the lines of the definition file
ResolvedCopies ==
    UNION {LET r == parse_copy(fs.content[i])
           IN IF r.exc # "" THEN {}
              ELSE {Normpath(Join(Dirname(path), r.val[k])) : k \in DOMAIN r.val}
             : i \in DOMAIN fs.content}

\* C4: the set copy_paths returns holds the definition file's path and
\* .dockerignore joined to its directory, and besides these only resolutions
\* of paths parse_copy yields for the file's lines.
C4_CopyPaths ==
    pc \in {"parent", "parent_read", "append"} =>
        /\ path \in cpaths
        /\ Join(Dirname(path), Dockerignore) \in cpaths
        /\ cpaths \ {path, Join(Dirname(path), Dockerignore)} \subseteq ResolvedCopies

\* copy_paths has returned for a file that has lines but no COPY or ADD line
C4_Witness ==
    /\ pc = "parent"
    /\ fs.content # <<>>
    /\ \A i \in DOMAIN fs.content :
          sub_if(COPY, fs.content[i]) = <<>> /\ sub_if(ADD, fs.content[i]) = <<>>
    /\ Cardinality(cpaths) = 2

C6_FromFlag ==
    (/\ ShellParsed
     /\ gen.instr = COPY
     /\ \E i \in DOMAIN Candidates : IsFromFlag(Candidates[i]))
    => ps = Ok(<<>>)

Sources == Upto(gen.toks, Len(gen.toks) - 1)

\* the line was written in shell form with single spaces
SingleSpaced == gen.form = "shell" /\ gen.sepA = SP /\ gen.sepB = SP

\* C7 as first stated: the shell form with single spaces and the exec form
\* of the same tokens make parse_copy yield the same list, the source tokens.
C7_Original ==
    (ShellParsed /\ SingleSpaced) =>
        /\ ps = parse_copy(ExecLine(gen))
        /\ ps = Ok(Sources)

\* what steps 4 and 5 leave of the sources
Kept ==
    IF gen.instr = COPY /\ \E i \in DOMAIN Sources : IsFromFlag(Sources[i])
    THEN <<>>
    ELSE IF gen.instr = ADD
    THEN SelectSeq(Sources, LAMBDA p : ~IsUrl(p))
    ELSE Sources

\* C7: the exec form of a token list, and its shell form with single spaces
\* when that text is not itself a JSON array, both make parse_copy yield the
\* source tokens less what the --from= rule (COPY) and the URL rule (ADD)
\* remove.
C7_FormsAgree ==
    (/\ pc = "copy_paths_read"
     /\ l = GenLine(gen)
     /\ gen.form = "exec" \/ (SingleSpaced /\ ~IsJsonArray(Remainder)))
    => ps = Ok(Kept)

\* an exec-form line with two sources has been parsed
C7_Witness ==
    /\ pc = "copy_paths_read"
    /\ gen.form = "exec"
    /\ l = ExecLine(gen)
    /\ Len(Sources) = 2
    /\ ps = Ok(Sources)

AllReadable == \A d \in DOMAIN fs.readable : fs.readable[d]

\* the path os.walk gives directory d
RECURSIVE WalkPath(_)
WalkPath(d) ==
    IF d = <<>> THEN root_path
    ELSE Join(WalkPath(Upto(d, Len(d) - 1)), d[Len(d)])

\* the files under the root whose name starts with Dockerfile
DefinitionFiles ==
    {<<d, n>> \in UNION {{d} \X fs.files[d] : d \in DOMAIN fs.files} :
        Len(n) >= 10 /\ \A i \in 1..10 : n[i] = Dockerfile[i]}

HasImage(d, n) ==
    \E i \in DOMAIN images : images[i].path = Join(WalkPath(d), n)

\* C8: list_images does not finish normally when the root or a directory
\* reached by the traversal is unreadable, so a catalogue it returns misses
\* no definition file.
C8_NoSilentSkip ==
    pc = "done" =>
        /\ AllReadable
        /\ \A df \in DefinitionFiles : HasImage(df[1], df[2])

\* the name of directory d itself
DirBasename(d) == IF d = <<>> THEN Basename(RStripSlash(root_path)) ELSE d[Len(d)]

C10_HandlesClosed == \A h \in handles : ~h.ref => h.state # "open"

====
